---- MODULE Spec2Model ----
(***************************************************************************)
(* A model of the tree database of app/TreeDataBase.py: NodeIdentifier,    *)
(* TreeNode and TreeDataBase, with the pickle file as the persistence      *)
(* target.                                                                 *)
(*                                                                         *)
(* Text (a Python str) is a sequence of one-character strings, so that     *)
(* split, join and startswith are computed as the code computes them.      *)
(* A NodeIdentifier's dict is a sequence of <<key, value>> pairs with      *)
(* pairwise distinct keys, in the dict's insertion order.                  *)
(* A TreeNode object is named by its id attribute (the uuid); the heap     *)
(* of live nodes is a function from ids to the nodes' other attributes.    *)
(***************************************************************************)
EXTENDS Integers, Sequences, FiniteSets, TLC

\* ------------------------------------------------------------------ bounds

\* How many TreeNode objects (uuid4 values) one run may construct.
MaxUuid == 5

\* How many comma-separated segments an identifier text given to
\* NodeIdentifier alone may have.
MaxSegments == 3

\* ------------------------------------------------------------------ text

\* str.split(sep) for a one-character separator.
RECURSIVE split(_, _)
split(s, sep) ==
    IF Len(s) = 0 THEN << <<>> >>
    ELSE LET rest == split(Tail(s), sep)
         IN  IF Head(s) = sep THEN << <<>> >> \o rest
             ELSE << <<Head(s)>> \o rest[1] >> \o Tail(rest)

\* sep.join(parts)
RECURSIVE join(_, _)
join(sep, parts) ==
    IF Len(parts) = 0 THEN <<>>
    ELSE IF Len(parts) = 1 THEN parts[1]
    ELSE parts[1] \o <<sep>> \o join(sep, Tail(parts))

\* str.startswith(prefix)
startswith(s, prefix) ==
    /\ Len(prefix) <= Len(s)
    /\ SubSeq(s, 1, Len(prefix)) = prefix

\* f"{k}={v}"
fmt_kv(k, v) == k \o <<"=">> \o v

\* ------------------------------------------------------------------ identifier texts

\* The segments the identifier and query texts below are built from.
O_R  == <<"o", "=", "r">>
M_A  == <<"m", "=", "a">>
M_B  == <<"m", "=", "b">>
C_X  == <<"c", "=", "x">>
BAD  == <<"b", "a", "d">>

\* The texts passed as identifier or query: full paths, the same pairs in
\* another order, partial queries, a segment lacking "=", and the empty text.
Texts ==
    {join(",", p) : p \in {<<O_R>>, <<O_R, M_A>>, <<O_R, M_B>>, <<O_R, C_X>>,
                           <<O_R, M_A, C_X>>, <<O_R, M_B, C_X>>, <<O_R, C_X, M_A>>,
                           <<O_R, C_X, M_B>>, <<M_A>>, <<C_X>>, <<M_A, C_X>>,
                           <<O_R, BAD>>, <<BAD>>, <<>>}}

\* The root identifiers passed to create_tree_db and load_from_file.
RootTexts == {O_R, BAD}

\* The texts passed to a store that is also reloaded and re-created.
StoreTexts == {join(",", p) : p \in {<<O_R>>, <<O_R, M_A>>, <<M_A>>, <<BAD>>}}

\* ------------------------------------------------------------------ dict

dict_keys(d) == [i \in 1..Len(d) |-> d[i][1]]

dict_has(d, k) == \E i \in 1..Len(d) : d[i][1] = k

\* d[k] = v: a new key goes to the end, a present key keeps its position.
dict_set(d, k, v) ==
    IF dict_has(d, k)
    THEN [i \in 1..Len(d) |-> IF d[i][1] = k THEN <<k, v>> ELSE d[i]]
    ELSE Append(d, <<k, v>>)

\* dict(list of [k, v] lists), left to right.
RECURSIVE dict_of(_)
dict_of(kvs) ==
    IF Len(kvs) = 0 THEN <<>>
    ELSE LET n == Len(kvs)
         IN  dict_set(dict_of(SubSeq(kvs, 1, n - 1)), kvs[n][1], kvs[n][2])

\* dict.get(key): the value, or None.
None == <<"None">>
dict_get(d, k) ==
    IF dict_has(d, k)
    THEN d[CHOOSE i \in 1..Len(d) : d[i][1] = k][2]
    ELSE None

\* dict == dict: the same keys with the same values, in any order.
dict_eq(d, e) == {d[i] : i \in 1..Len(d)} = {e[i] : i \in 1..Len(e)}

\* ------------------------------------------------------------------ NodeIdentifier

\* The lists kv.split("=") that parse_identifier hands to dict().
kv_lists(identifier) ==
    LET segs == split(identifier, ",")
    IN  [i \in 1..Len(segs) |-> split(segs[i], "=")]

\* dict() raises ValueError on an element that is not of length 2.
dict_raises(kvs) == \E i \in 1..Len(kvs) : Len(kvs[i]) # 2

\* parse_identifier on each input text, computed once: whether it raises, and
\* the dict it returns.
parsed ==
    [t \in Texts \cup RootTexts \cup StoreTexts |->
        [raises |-> dict_raises(kv_lists(t)),
         dict   |-> IF dict_raises(kv_lists(t)) THEN <<>> ELSE dict_of(kv_lists(t))]]

\* Whether NodeIdentifier.parse_identifier raises on this text.
parse_raises(identifier) ==
    IF identifier \in DOMAIN parsed THEN parsed[identifier].raises
    ELSE dict_raises(kv_lists(identifier))

\* NodeIdentifier.parse_identifier, where it does not raise.
parse_identifier(identifier) ==
    IF identifier \in DOMAIN parsed THEN parsed[identifier].dict
    ELSE dict_of(kv_lists(identifier))

\* NodeIdentifier.__str__ and the ",".join([f"{k}={v}" ...]) of insert_node.
render(items) == join(",", [i \in 1..Len(items) |-> fmt_kv(items[i][1], items[i][2])])

\* NodeIdentifier.get_current_level_identifier (the dict is never empty here).
get_current_level_identifier(d) == fmt_kv(d[Len(d)][1], d[Len(d)][2])

\* NodeIdentifier.__eq__
NodeIdentifier_eq(d, e) == dict_eq(d, e)

\* ------------------------------------------------------------------ TreeNode

\* No TreeNode (Python's None where a node is expected); uuids start at 1.
NoNode == 0

\* The attributes of a freshly constructed TreeNode(data, node_identifier).
TreeNode(data, node_identifier) ==
    [data            |-> data,
     children        |-> <<>>,
     node_identifier |-> parse_identifier(node_identifier)]

\* The ids of the nodes of the subtree of self, self included.
RECURSIVE subtree(_, _)
subtree(T, self) ==
    {self} \cup UNION {subtree(T, T[self].children[i]) : i \in 1..Len(T[self].children)}

\* TreeNode.is_valid_new_node_identifier
is_valid_new_node_identifier(T, self, new_node_identifier) ==
    LET root_key == dict_keys(T[self].node_identifier)[1]
    IN  startswith(new_node_identifier, root_key \o <<"=">>)

\* TreeNode._extract_node_identifiers: self's identifier, then each child's list.
RECURSIVE _extract_node_identifiers(_, _), extract_from(_, _, _)
_extract_node_identifiers(T, self) ==
    <<T[self].node_identifier>> \o extract_from(T, T[self].children, 1)
extract_from(T, children, i) ==
    IF i > Len(children) THEN <<>>
    ELSE _extract_node_identifiers(T, children[i]) \o extract_from(T, children, i + 1)

\* The test of _search: every pair of the query is in the node's identifier.
query_matches(node_identifier, query_dict) ==
    \A i \in 1..Len(query_dict) :
        dict_get(node_identifier, query_dict[i][1]) = query_dict[i][2]

\* TreeNode._search: self first, then the children left to right.
RECURSIVE _search(_, _, _), search_from(_, _, _, _)
\* _search looking into the children before self.
_search_children_first(T, self, query_dict) ==
    LET result == search_from(T, T[self].children, 1, query_dict)
    IN  IF result # NoNode THEN result
        ELSE IF query_matches(T[self].node_identifier, query_dict) THEN self
        ELSE NoNode
_search(T, self, query_dict) ==
    IF query_matches(T[self].node_identifier, query_dict) THEN self
    ELSE search_from(T, T[self].children, 1, query_dict)
search_from(T, children, i, query_dict) ==
    IF i > Len(children) THEN NoNode
    ELSE LET result == _search(T, children[i], query_dict)
         IN  IF result # NoNode THEN result
             ELSE search_from(T, children, i + 1, query_dict)

\* TreeNode.find_by_query, where NodeIdentifier(query) does not raise.
find_by_query(T, self, query) == _search(T, self, parse_identifier(query))

\* What a TreeNode operation gives back: it raised, or it returned
\* (success, message); nodes is the heap afterwards, node the TreeNode it made.
Raised(T) ==
    [raised |-> TRUE, success |-> FALSE, message |-> "ValueError", nodes |-> T, node |-> NoNode]
Returned(success, message, T, node) ==
    [raised |-> FALSE, success |-> success, message |-> message, nodes |-> T, node |-> node]

\* del parent.children[i] with the removed child's children taking its place.
del_child_keeping_grandchildren(T, parent, i) ==
    LET child == T[parent].children[i]
        kept  == SubSeq(T[parent].children, 1, i - 1) \o T[child].children
                     \o SubSeq(T[parent].children, i + 1, Len(T[parent].children))
    IN  [u \in (DOMAIN T) \ {child} |->
             IF u = parent THEN [T[u] EXCEPT !.children = kept] ELSE T[u]]

\* del parent.children[i]: the child and its subtree are no longer reachable.
del_child(T, parent, i) ==
    LET gone == subtree(T, T[parent].children[i])
        kept == [j \in 1..(Len(T[parent].children) - 1) |->
                     IF j < i THEN T[parent].children[j] ELSE T[parent].children[j + 1]]
    IN  [u \in (DOMAIN T) \ gone |->
             IF u = parent THEN [T[u] EXCEPT !.children = kept] ELSE T[u]]

\* The inner _delete_node of delete_node: found, and the heap afterwards.
RECURSIVE _delete_node(_, _, _), delete_from(_, _, _, _)
\* _delete_node testing all the children of parent before it descends.
_delete_node_siblings_first(T, parent, query) ==
    LET matching == {i \in 1..Len(T[parent].children) :
                        get_current_level_identifier(T[T[parent].children[i]].node_identifier)
                            = get_current_level_identifier(parse_identifier(query))}
    IN  IF matching # {}
        THEN [found |-> TRUE,
              nodes |-> del_child(T, parent, CHOOSE i \in matching : \A j \in matching : i <= j)]
        ELSE delete_from(T, parent, 1, query)
_delete_node(T, parent, query) == delete_from(T, parent, 1, query)
delete_from(T, parent, i, query) ==
    IF i > Len(T[parent].children) THEN [found |-> FALSE, nodes |-> T]
    ELSE LET child == T[parent].children[i]
         IN  IF get_current_level_identifier(T[child].node_identifier)
                  = get_current_level_identifier(parse_identifier(query))
             THEN [found |-> TRUE, nodes |-> del_child(T, parent, i)]
             ELSE LET r == _delete_node(T, child, query)
                  IN  IF r.found THEN r ELSE delete_from(T, parent, i + 1, query)

\* TreeNode.delete_node
delete_node(T, self, query) ==
    IF parse_raises(query) THEN Raised(T)
    ELSE LET deleted == _delete_node(T, self, query)
         IN  IF find_by_query(T, self, query) # NoNode /\ deleted.found
             THEN Returned(TRUE, "Node deleted successfully.", deleted.nodes, NoNode)
             ELSE Returned(FALSE, "Node not found.", T, NoNode)

\* update_node adding the new fields to the node's data.
update_node_merging(T, self, query, new_data) ==
    IF parse_raises(query) THEN Raised(T)
    ELSE LET node == find_by_query(T, self, query)
         IN  IF node # NoNode
             THEN Returned(TRUE, "Node updated successfully.",
                           [T EXCEPT ![node].data = @ \cup new_data], NoNode)
             ELSE Returned(FALSE, "Node not found.", T, NoNode)

\* TreeNode.update_node
update_node(T, self, query, new_data) ==
    IF parse_raises(query) THEN Raised(T)
    ELSE LET node == find_by_query(T, self, query)
         IN  IF node # NoNode
             THEN Returned(TRUE, "Node updated successfully.",
                           [T EXCEPT ![node].data = new_data], NoNode)
             ELSE Returned(FALSE, "Node not found.", T, NoNode)

\* add_child putting the child in front of the list.
add_child_in_front(T, self, new_id, child_node) ==
    [u \in (DOMAIN T) \cup {new_id} |->
        IF u = new_id THEN child_node
        ELSE IF u = self THEN [T[u] EXCEPT !.children = <<new_id>> \o @]
        ELSE T[u]]

\* TreeNode.add_child, the child being a new object with the id new_id.
add_child(T, self, new_id, child_node) ==
    [u \in (DOMAIN T) \cup {new_id} |->
        IF u = new_id THEN child_node
        ELSE IF u = self THEN [T[u] EXCEPT !.children = Append(@, new_id)]
        ELSE T[u]]

\* insert_node without its scan for an equal identifier.
insert_node_without_duplicate_scan(T, self, new_node_data, new_node_identifier, new_id) ==
    IF ~is_valid_new_node_identifier(T, self, new_node_identifier)
    THEN Returned(FALSE, "Invalid new node identifier.", T, NoNode)
    ELSE IF parse_raises(new_node_identifier) THEN Raised(T)
    ELSE LET items == parse_identifier(new_node_identifier)
             parent_identifier == render(SubSeq(items, 1, Len(items) - 1))
         IN  IF parse_raises(parent_identifier) THEN Raised(T)
             ELSE LET parent_node == find_by_query(T, self, parent_identifier)
                  IN  IF parent_node = NoNode
                      THEN Returned(FALSE, "Parent node not found.", T, NoNode)
                      ELSE Returned(TRUE, "Node inserted successfully.",
                                    add_child(T, parent_node, new_id,
                                              TreeNode(new_node_data, new_node_identifier)),
                                    new_id)

\* insert_node hanging the new node under self when no parent is found.
insert_node_without_parent_test(T, self, new_node_data, new_node_identifier, new_id) ==
    IF ~is_valid_new_node_identifier(T, self, new_node_identifier)
    THEN Returned(FALSE, "Invalid new node identifier.", T, NoNode)
    ELSE IF parse_raises(new_node_identifier) THEN Raised(T)
    ELSE LET items == parse_identifier(new_node_identifier)
             parent_identifier == render(SubSeq(items, 1, Len(items) - 1))
         IN  IF parse_raises(parent_identifier) THEN Raised(T)
             ELSE LET found == find_by_query(T, self, parent_identifier)
                      parent_node == IF found = NoNode THEN self ELSE found
                      identifiers == _extract_node_identifiers(T, self)
                  IN  IF \E i \in 1..Len(identifiers) :
                             NodeIdentifier_eq(items, identifiers[i])
                      THEN Returned(FALSE, "A node with this identifier already exists.",
                                    T, NoNode)
                      ELSE Returned(TRUE, "Node inserted successfully.",
                                    add_child(T, parent_node, new_id,
                                              TreeNode(new_node_data, new_node_identifier)),
                                    new_id)

\* TreeNode.insert_node; new_id is the uuid4 of the node it may construct.
insert_node(T, self, new_node_data, new_node_identifier, new_id) ==
    IF ~is_valid_new_node_identifier(T, self, new_node_identifier)
    THEN Returned(FALSE, "Invalid new node identifier.", T, NoNode)
    ELSE IF parse_raises(new_node_identifier) THEN Raised(T)
    ELSE LET new_node_identifier_dict == parse_identifier(new_node_identifier)
             parent_identifier_items ==
                 SubSeq(new_node_identifier_dict, 1, Len(new_node_identifier_dict) - 1)
             parent_identifier == render(parent_identifier_items)
         IN  IF parse_raises(parent_identifier) THEN Raised(T)
             ELSE LET parent_node == find_by_query(T, self, parent_identifier)
                      identifiers == _extract_node_identifiers(T, self)
                  IN  IF parent_node = NoNode
                      THEN Returned(FALSE, "Parent node not found.", T, NoNode)
                      ELSE IF \E i \in 1..Len(identifiers) :
                                  NodeIdentifier_eq(new_node_identifier_dict, identifiers[i])
                      THEN Returned(FALSE, "A node with this identifier already exists.",
                                    T, NoNode)
                      ELSE Returned(TRUE, "Node inserted successfully.",
                                    add_child(T, parent_node, new_id,
                                              TreeNode(new_node_data, new_node_identifier)),
                                    new_id)

\* TreeNode.beauty_dict: the summary record of a node.
beauty_dict(T, self) ==
    [id |-> self, data |-> T[self].data, node_id |-> T[self].node_identifier]

\* get_all_children taking each child's summary and not the child's list.
get_all_children_one_level(T, self) ==
    <<beauty_dict(T, self)>>
        \o [i \in 1..Len(T[self].children) |-> beauty_dict(T, T[self].children[i])]

\* TreeNode.get_all_children: self's summary, then each child's list.
RECURSIVE get_all_children(_, _), all_children_from(_, _, _)
get_all_children(T, self) ==
    <<beauty_dict(T, self)>> \o all_children_from(T, T[self].children, 1)
all_children_from(T, children, i) ==
    IF i > Len(children) THEN <<>>
    ELSE get_all_children(T, children[i]) \o all_children_from(T, children, i + 1)

\* TreeNode.get_tree_structure: [] for a leaf; for a node with children the
\* dict filled child by child, node_dict[current-level identifier] = the
\* child's structure, a key set twice keeping its last value.
RECURSIVE get_tree_structure(_, _), structure_from(_, _, _, _)
get_tree_structure(T, self) ==
    IF Len(T[self].children) > 0
    THEN structure_from(T, T[self].children, 1, <<>>)
    ELSE <<>>
structure_from(T, children, i, node_dict) ==
    IF i > Len(children) THEN node_dict
    ELSE structure_from(T, children, i + 1,
             dict_set(node_dict,
                      get_current_level_identifier(T[children[i]].node_identifier),
                      get_tree_structure(T, children[i])))

\* ------------------------------------------------------------------ payloads and file names

\* Data payloads (dicts), as sets of <<key, value>>.
EmptyData == {}
P1 == {<<"meta1", "meta_val">>}
Payloads == {EmptyData, P1}

\* File names: the empty name, and one file.
Paths == {"", "data.db"}
FilePaths == Paths \ {""}

\* ------------------------------------------------------------------ TreeDataBase

VARIABLES
    root,       \* TreeDataBase.root: the id of the root TreeNode, or NoNode
    nodes,      \* the live TreeNode objects reachable from root, by id
    db_path,    \* TreeDataBase.db_path
    files,      \* the file system: what each file holds
    next_uuid,  \* the next value uuid4() gives
    last        \* the last call: its name and what it gave back

vars == <<root, nodes, db_path, files, next_uuid, last>>

\* db_path before create_tree_db or load_from_file has set the attribute.
Unset == "<unset>"

NoHeap == [u \in {} |-> {}]

\* A file that does not exist, and the pickle of a tree.
NoFile == [exists |-> FALSE, root |-> NoNode, nodes |-> NoHeap]
pickle_dump(r, T) == [exists |-> TRUE, root |-> r, nodes |-> T]

os_path_exists(F, path) == path \in DOMAIN F /\ F[path].exists

\* TreeDataBase.save_tree, for a file name open() accepts.
save_tree(F, filename, r, T) == [F EXCEPT ![filename] = pickle_dump(r, T)]

\* TreeDataBase.save_cb: the file system afterwards.
save_cb(F, path, r, T) == IF path # "" THEN save_tree(F, path, r, T) ELSE F

\* Whether save_cb writes.
save_cb_writes(path) == path # ""

Call(op, raised, success, message, node, saved) ==
    [op |-> op, raised |-> raised, success |-> success, message |-> message,
     node |-> node, saved |-> saved]

Init ==
    /\ root = NoNode
    /\ nodes = NoHeap
    /\ db_path = Unset
    /\ files = [p \in FilePaths |-> NoFile]
    /\ next_uuid = 1
    /\ last = Call("init", FALSE, FALSE, "", NoNode, FALSE)

\* TreeDataBase.create_tree_db
CreateRoot(path, data, node_identifier) ==
    /\ next_uuid <= MaxUuid
    /\ IF parse_raises(node_identifier)
       THEN /\ last' = Call("create", TRUE, FALSE, "ValueError", NoNode, FALSE)
            /\ UNCHANGED <<root, nodes, db_path, files, next_uuid>>
       ELSE /\ root' = next_uuid
            /\ nodes' = [u \in {next_uuid} |-> TreeNode(data, node_identifier)]
            /\ next_uuid' = next_uuid + 1
            /\ db_path' = path
            /\ IF path = ""
               THEN /\ files' = files
                    /\ last' = Call("create", TRUE, FALSE, "FileNotFoundError", NoNode, FALSE)
               ELSE /\ files' = save_tree(files, path, root', nodes')
                    /\ last' = Call("create", FALSE, TRUE, "", NoNode, TRUE)

\* The store's mutating call saving whatever the TreeNode operation returned.
Mutate_saving_on_failure(op, r) ==
    /\ nodes' = r.nodes
    /\ files' = IF ~r.raised THEN save_cb(files, db_path, root, r.nodes) ELSE files
    /\ last' = Call(op, r.raised, r.success, r.message, r.node,
                    ~r.raised /\ save_cb_writes(db_path))
    /\ UNCHANGED <<root, db_path>>

\* A mutating call of the store around the TreeNode operation's result r.
Mutate(op, r) ==
    /\ nodes' = r.nodes
    /\ files' = IF r.success THEN save_cb(files, db_path, root, r.nodes) ELSE files
    /\ last' = Call(op, r.raised, r.success, r.message, r.node,
                    r.success /\ save_cb_writes(db_path))
    /\ UNCHANGED <<root, db_path>>

\* A call on a store whose root is None: self.root.<method> raises.
NoRoot(op) ==
    /\ last' = Call(op, TRUE, FALSE, "AttributeError", NoNode, FALSE)
    /\ UNCHANGED <<root, nodes, db_path, files, next_uuid>>

\* TreeDataBase.insert
Insert(new_node_data, new_node_identifier) ==
    IF root = NoNode THEN NoRoot("insert")
    ELSE LET r == insert_node(nodes, root, new_node_data, new_node_identifier, next_uuid)
         IN  /\ r.node # NoNode => next_uuid <= MaxUuid
             /\ Mutate("insert", r)
             /\ next_uuid' = IF r.node # NoNode THEN next_uuid + 1 ELSE next_uuid

\* TreeDataBase.update
Update(query, new_data) ==
    IF root = NoNode THEN NoRoot("update")
    ELSE /\ Mutate("update", update_node(nodes, root, query, new_data))
         /\ UNCHANGED next_uuid

\* TreeDataBase.delete
Delete(query) ==
    IF root = NoNode THEN NoRoot("delete")
    ELSE /\ Mutate("delete", delete_node(nodes, root, query))
         /\ UNCHANGED next_uuid

\* TreeDataBase.query, where it does not raise: a read, no attribute changes.
query(T, r, text) == find_by_query(T, r, text)

\* TreeDataBase.get_all_children and TreeDataBase.get_tree: reads.
db_get_all_children(T, r) == get_all_children(T, r)
get_tree(T, r) == get_tree_structure(T, r)

\* load_from_file dropping the root when it returns False.
LoadFromFile_dropping_root(filename, root_id) ==
    /\ db_path' = filename
    /\ IF filename = "" \/ (~os_path_exists(files, filename) /\ root_id = None)
       THEN /\ last' = Call("load", FALSE, FALSE, "", NoNode, FALSE)
            /\ root' = NoNode
            /\ nodes' = NoHeap
            /\ UNCHANGED <<files, next_uuid>>
       ELSE IF ~os_path_exists(files, filename)
       THEN IF parse_raises(root_id)
            THEN /\ last' = Call("load", TRUE, FALSE, "ValueError", NoNode, FALSE)
                 /\ UNCHANGED <<root, nodes, files, next_uuid>>
            ELSE /\ next_uuid <= MaxUuid
                 /\ files' = save_tree(files, filename, next_uuid,
                               [u \in {next_uuid} |-> TreeNode(EmptyData, root_id)])
                 /\ root' = files'[filename].root
                 /\ nodes' = files'[filename].nodes
                 /\ next_uuid' = next_uuid + 1
                 /\ last' = Call("load", FALSE, TRUE, "", NoNode, TRUE)
       ELSE /\ root' = files[filename].root
            /\ nodes' = files[filename].nodes
            /\ last' = Call("load", FALSE, TRUE, "", NoNode, FALSE)
            /\ UNCHANGED <<files, next_uuid>>

\* TreeDataBase.load_from_file; root_id = None when it is not given.
LoadFromFile(filename, root_id) ==
    /\ db_path' = filename
    /\ IF filename = ""
       THEN /\ last' = Call("load", FALSE, FALSE, "", NoNode, FALSE)
            /\ UNCHANGED <<root, nodes, files, next_uuid>>
       ELSE IF ~os_path_exists(files, filename)
       THEN IF root_id # None
            THEN IF parse_raises(root_id)
                 THEN /\ last' = Call("load", TRUE, FALSE, "ValueError", NoNode, FALSE)
                      /\ UNCHANGED <<root, nodes, files, next_uuid>>
                 ELSE /\ next_uuid <= MaxUuid
                      /\ files' = save_tree(files, filename, next_uuid,
                                    [u \in {next_uuid} |-> TreeNode(EmptyData, root_id)])
                      /\ root' = files'[filename].root
                      /\ nodes' = files'[filename].nodes
                      /\ next_uuid' = next_uuid + 1
                      /\ last' = Call("load", FALSE, TRUE, "", NoNode, TRUE)
            ELSE /\ last' = Call("load", FALSE, FALSE, "", NoNode, FALSE)
                 /\ UNCHANGED <<root, nodes, files, next_uuid>>
       ELSE /\ root' = files[filename].root
            /\ nodes' = files[filename].nodes
            /\ last' = Call("load", FALSE, TRUE, "", NoNode, FALSE)
            /\ UNCHANGED <<files, next_uuid>>

\* ------------------------------------------------------------------ specifications


\* The tree engine: a store created once at data.db, then any sequence of
\* insert, update and delete calls on every text of Texts.  Payloads do not
\* matter to the identifiers and the shape of the tree: one payload is used.
Next ==
    \/ \E t \in RootTexts : root = NoNode /\ CreateRoot("data.db", EmptyData, t)
    \/ \E t \in Texts : Insert(P1, t)
    \/ \E t \in Texts : Update(t, P1)
    \/ \E t \in Texts : Delete(t)

Spec == Init /\ [][Next]_vars

\* The store with its persistence: create_tree_db and load_from_file at any
\* time, with and without a root identifier, on the empty file name too.
NextStore ==
    \/ \E path \in FilePaths, data \in Payloads, t \in RootTexts : CreateRoot(path, data, t)
    \/ \E filename \in Paths, root_id \in RootTexts \cup {None} : LoadFromFile(filename, root_id)
    \/ \E data \in Payloads, t \in StoreTexts : Insert(data, t)
    \/ \E data \in Payloads, t \in StoreTexts : Update(t, data)
    \/ \E t \in StoreTexts : Delete(t)

SpecStore == Init /\ [][NextStore]_vars

\* The root identifiers of a store whose root is not at the top of its path:
\* create_tree_db takes any identifier text.
PathRootTexts == {join(",", p) : p \in {<<O_R, M_A>>, <<O_R, M_A, C_X>>}}

\* The tree engine under a root identifier of two or three pairs.
NextPathRoot ==
    \/ \E t \in PathRootTexts : root = NoNode /\ CreateRoot("data.db", EmptyData, t)
    \/ \E t \in Texts : Insert(P1, t)
    \/ \E t \in Texts : Update(t, P1)
    \/ \E t \in Texts : Delete(t)

SpecPathRoot == Init /\ [][NextPathRoot]_vars

\* The texts given to NodeIdentifier alone: one to MaxSegments segments, with
\* a key in several segments, the same pairs in several orders, and a segment
\* lacking "=".
IdentifierTexts ==
    {join(",", p) : p \in UNION {[1..n -> {O_R, M_A, M_B, BAD}] : n \in 1..MaxSegments}}

\* Two texts to make NodeIdentifiers of, before any store is made.
InitIdentifier ==
    /\ root = NoNode
    /\ nodes = NoHeap
    /\ db_path = Unset
    /\ files = [p \in FilePaths |-> NoFile]
    /\ next_uuid = 1
    /\ \E a, b \in IdentifierTexts : last = [op |-> "texts", a |-> a, b |-> b]

\* NodeIdentifier(text) and str() of it: the dict parse_identifier returns,
\* and the text __str__ renders from it.
NodeIdentifier_init ==
    /\ last.op = "texts"
    /\ last' = IF parse_raises(last.a)
               THEN [op |-> "NodeIdentifier", text |-> last.a, raised |-> TRUE,
                     node_identifier |-> <<>>, str |-> <<>>]
               ELSE [op |-> "NodeIdentifier", text |-> last.a, raised |-> FALSE,
                     node_identifier |-> parse_identifier(last.a),
                     str |-> render(parse_identifier(last.a))]
    /\ UNCHANGED <<root, nodes, db_path, files, next_uuid>>

\* NodeIdentifier(a) == NodeIdentifier(b), where neither constructor raises.
NodeIdentifier_compare ==
    /\ last.op = "texts"
    /\ ~parse_raises(last.a) /\ ~parse_raises(last.b)
    /\ last' = [op |-> "__eq__",
                a |-> parse_identifier(last.a), b |-> parse_identifier(last.b),
                result |-> NodeIdentifier_eq(parse_identifier(last.a),
                                             parse_identifier(last.b))]
    /\ UNCHANGED <<root, nodes, db_path, files, next_uuid>>

NextIdentifier ==
    \/ NodeIdentifier_init
    \/ NodeIdentifier_compare

SpecIdentifier == InitIdentifier /\ [][NextIdentifier]_vars

\* ------------------------------------------------------------------ claims

Mutating == {"insert", "update", "delete"}

\* The text of a node's full identifier.
identifier_text(T, u) == render(T[u].node_identifier)

\* C1: in every state reached by insert, update and delete calls on a created
\* store, no two distinct nodes of the tree hold equal NodeIdentifiers.
UniqueIdentifiers ==
    \A u, v \in DOMAIN nodes :
        u # v => ~NodeIdentifier_eq(nodes[u].node_identifier, nodes[v].node_identifier)

\* C1's case: a tree of several nodes on which an insert of a present
\* identifier has just been refused.
UniqueIdentifiersWitness ==
    /\ last.op = "insert"
    /\ last.message = "A node with this identifier already exists."
    /\ Cardinality(DOMAIN nodes) >= 4

\* C2: when insert(data, t) returns success, query(t) on the tree it leaves
\* returns the node this insert created.
QueryAfterInsertReturnsNewNode ==
    [][\A t \in Texts :
          (last'.op = "insert" /\ last'.success /\ Insert(P1, t))
              => query(nodes', root', t) = last'.node]_vars

\* C3: when delete is called with the full identifier text of an existing
\* non-root node x and returns success, exactly x and its descendants leave
\* the tree, and a query on the identifier of any of them returns absent.
DeleteRemovesExactlyTheSubtree ==
    [][\A x \in DOMAIN nodes :
          (x # root /\ last'.op = "delete" /\ last'.success
                /\ Delete(identifier_text(nodes, x)))
              => /\ DOMAIN nodes' = (DOMAIN nodes) \ subtree(nodes, x)
                 /\ \A g \in subtree(nodes, x) :
                        query(nodes', root', identifier_text(nodes, g)) = NoNode]_vars

\* C3's scenario: with o=r,m=a,c=x and o=r,m=b,c=x both in the tree, each
\* under its own parent, delete("o=r,m=b,c=x") removes the node under m=b and
\* keeps the node under m=a.
DeleteScenarioRemovesTheNamedBranch ==
    [][\A xa, xb \in DOMAIN nodes :
          (/\ nodes[xa].node_identifier = parse_identifier(join(",", <<O_R, M_A, C_X>>))
           /\ nodes[xb].node_identifier = parse_identifier(join(",", <<O_R, M_B, C_X>>))
           /\ last'.op = "delete" /\ last'.success
           /\ Delete(join(",", <<O_R, M_B, C_X>>)))
              => (xb \notin DOMAIN nodes' /\ xa \in DOMAIN nodes')]_vars

\* C4: insert(data, t) where some node of the tree, the root included, has an
\* identifier equal to t's returns (False, "A node with this identifier
\* already exists.") and leaves the tree unchanged.
DuplicateInsertIsRefused ==
    [][\A t \in Texts :
          (/\ root # NoNode
           /\ last'.op = "insert"
           /\ ~parse_raises(t)
           /\ \E u \in DOMAIN nodes :
                  NodeIdentifier_eq(nodes[u].node_identifier, parse_identifier(t))
           /\ Insert(P1, t))
              => /\ ~last'.raised
                 /\ ~last'.success
                 /\ last'.message = "A node with this identifier already exists."
                 /\ nodes' = nodes]_vars

\* C5: every non-root node's identifier is its parent's identifier plus
\* exactly one trailing pair.
ChildExtendsParent ==
    \A p \in DOMAIN nodes :
        \A i \in 1..Len(nodes[p].children) :
            LET child_id  == nodes[nodes[p].children[i]].node_identifier
                parent_id == nodes[p].node_identifier
            IN  /\ Len(child_id) = Len(parent_id) + 1
                /\ SubSeq(child_id, 1, Len(parent_id)) = parent_id

\* C6: on an initialized store, insert, update and delete return a (success,
\* message) pair for every text and never raise, and a failure leaves the
\* tree unchanged.
MutatingCallsNeverRaise ==
    [][(root # NoNode /\ last'.op \in Mutating)
          => /\ ~last'.raised
             /\ ~last'.success => (nodes' = nodes /\ root' = root)]_vars

\* C7: whenever insert, update or delete returns success, the persistence
\* target has been rewritten with the pickle of the whole tree as it stands
\* after the mutation, after any sequence of create, load and mutating calls.
SuccessIsPersisted ==
    (last.op \in Mutating /\ last.success)
        => /\ last.saved
           /\ os_path_exists(files, db_path)
           /\ files[db_path] = pickle_dump(root, nodes)

\* C8: when the TreeNode operation behind insert, update or delete reports
\* failure, the store returns that (False, message) pair, writes nothing, and
\* the tree is what it was before the call.
FailureChangesNothing ==
    [][(root # NoNode /\ last'.op \in Mutating /\ ~last'.raised /\ ~last'.success)
          => /\ nodes' = nodes
             /\ root' = root
             /\ files' = files
             /\ ~last'.saved
             /\ \A t \in StoreTexts, d \in Payloads :
                  /\ (last'.op = "insert" /\ Insert(d, t))
                       => last'.message = insert_node(nodes, root, d, t, next_uuid).message
                  /\ (last'.op = "update" /\ Update(t, d))
                       => last'.message = update_node(nodes, root, t, d).message
                  /\ (last'.op = "delete" /\ Delete(t))
                       => last'.message = delete_node(nodes, root, t).message]_vars

\* C8's case: a failed delete on a tree with children, whose file holds
\* another tree than the one in memory.
FailureChangesNothingWitness ==
    /\ last.op = "delete"
    /\ ~last.raised /\ ~last.success
    /\ Cardinality(DOMAIN nodes) >= 2
    /\ files["data.db"].exists
    /\ files["data.db"].nodes # nodes

\* C9 as claimed: load_from_file has exactly three outcomes: the target holds
\* data and the store takes the persisted tree; it holds none, root_id is
\* given, and the store gets a single childless root of that identifier,
\* persisted; it holds none, no root_id is given, the load fails and the
\* store has no root.
LoadHasThreeOutcomes ==
    [][\A f \in Paths, rid \in RootTexts \cup {None} :
          (last'.op = "load" /\ LoadFromFile(f, rid))
              => IF os_path_exists(files, f)
                 THEN last'.success /\ root' = files[f].root /\ nodes' = files[f].nodes
                 ELSE IF rid # None
                 THEN /\ last'.success
                      /\ root' # NoNode
                      /\ DOMAIN nodes' = {root'}
                      /\ nodes'[root'].children = <<>>
                      /\ identifier_text(nodes', root') = rid
                      /\ os_path_exists(files', f)
                      /\ files'[f] = pickle_dump(root', nodes')
                 ELSE ~last'.success /\ root' = NoNode]_vars

\* C9 as amended: on the empty file name, or on a target without data and
\* without root_id, the load returns False and the root and the tree are
\* what they were; on a target that holds data the store takes the persisted
\* tree, whatever root_id is; on a named target without data and with a
\* well-formed root_id the store gets a single childless root of that
\* identifier, persisted to the target; with a malformed root_id the load
\* raises and the root and the tree are what they were.
LoadOutcomes ==
    [][\A f \in Paths, rid \in RootTexts \cup {None} :
          (last'.op = "load" /\ LoadFromFile(f, rid))
              => IF f = "" \/ (~os_path_exists(files, f) /\ rid = None)
                 THEN /\ ~last'.success /\ ~last'.raised
                      /\ root' = root /\ nodes' = nodes /\ files' = files
                 ELSE IF os_path_exists(files, f)
                 THEN /\ last'.success
                      /\ root' = files[f].root /\ nodes' = files[f].nodes
                      /\ files' = files
                 ELSE IF parse_raises(rid)
                 THEN /\ last'.raised
                      /\ root' = root /\ nodes' = nodes /\ files' = files
                 ELSE /\ last'.success
                      /\ root' # NoNode
                      /\ DOMAIN nodes' = {root'}
                      /\ nodes'[root'].children = <<>>
                      /\ nodes'[root'].data = EmptyData
                      /\ identifier_text(nodes', root') = rid
                      /\ os_path_exists(files', f)
                      /\ files'[f] = pickle_dump(root', nodes')]_vars

\* C9's case: a load that returned False on a store that keeps its root and
\* its children.
LoadOutcomesWitness ==
    /\ last.op = "load"
    /\ ~last.success /\ ~last.raised
    /\ root # NoNode
    /\ Cardinality(DOMAIN nodes) >= 2

\* Whether no node of the tree has every pair of t's ancestor prefix (all
\* pairs of t but the last).
prefix_unresolved(T, t) ==
    LET items == parse_identifier(t)
    IN  ~\E u \in DOMAIN T :
            query_matches(T[u].node_identifier, SubSeq(items, 1, Len(items) - 1))

\* C10 as claimed: insert(data, t) whose ancestor prefix resolves to no node
\* returns (False, "Parent node not found.") and leaves the tree unchanged.
MissingParentIsRefused ==
    [][\A t \in Texts :
          (/\ root # NoNode
           /\ last'.op = "insert"
           /\ ~parse_raises(t)
           /\ prefix_unresolved(nodes, t)
           /\ Insert(P1, t))
              => /\ ~last'.raised /\ ~last'.success
                 /\ last'.message = "Parent node not found."
                 /\ nodes' = nodes]_vars

\* C10 as amended: so it is when t starts with the root's first key and "="
\* and parses to at least two pairs.
MissingParentOfValidIdentifierIsRefused ==
    [][\A t \in Texts :
          (/\ root # NoNode
           /\ last'.op = "insert"
           /\ is_valid_new_node_identifier(nodes, root, t)
           /\ ~parse_raises(t)
           /\ Len(parse_identifier(t)) >= 2
           /\ prefix_unresolved(nodes, t)
           /\ Insert(P1, t))
              => /\ ~last'.raised /\ ~last'.success
                 /\ last'.message = "Parent node not found."
                 /\ nodes' = nodes]_vars

\* C10's case: an insert refused for its missing parent on a tree with
\* children.
MissingParentWitness ==
    /\ last.op = "insert"
    /\ last.message = "Parent node not found."
    /\ Cardinality(DOMAIN nodes) >= 3

\* C11: in every reachable tree, get_tree_structure of a leaf is the empty
\* list, and of a node with children a dict whose keys are exactly its
\* children's current-level identifiers and whose entry under each child's
\* current-level identifier is that child's own structure.
ExportHoldsEveryChild ==
    \A u \in DOMAIN nodes :
        LET structure == get_tree_structure(nodes, u)
            children  == nodes[u].children
            key(i)    == get_current_level_identifier(nodes[children[i]].node_identifier)
        IN  IF Len(children) = 0 THEN structure = <<>>
            ELSE /\ {dict_keys(structure)[i] : i \in 1..Len(structure)}
                        = {key(i) : i \in 1..Len(children)}
                 /\ \A i \in 1..Len(children) :
                        dict_get(structure, key(i)) = get_tree_structure(nodes, children[i])

\* C12: in every reachable tree, get_all_children returns the summary of
\* every node of the tree exactly once, in pre-order: the root first, a
\* node's first child right after the node, each further child right after
\* the whole subtree of the child before it; the node a successful insert has
\* just created is in it exactly once.
AllChildrenIsPreorder ==
    root # NoNode =>
        LET all    == db_get_all_children(nodes, root)
            pos(u) == CHOOSE i \in 1..Len(all) : all[i].id = u
        IN  /\ Len(all) = Cardinality(DOMAIN nodes)
            /\ {all[i].id : i \in 1..Len(all)} = DOMAIN nodes
            /\ \A i \in 1..Len(all) : all[i] = beauty_dict(nodes, all[i].id)
            /\ all[1].id = root
            /\ \A p \in DOMAIN nodes :
                   \A i \in 1..Len(nodes[p].children) :
                       pos(nodes[p].children[i])
                           = IF i = 1 THEN pos(p) + 1
                             ELSE pos(nodes[p].children[i - 1])
                                    + Cardinality(subtree(nodes, nodes[p].children[i - 1]))
            /\ (last.op = "insert" /\ last.success)
                   => Cardinality({i \in 1..Len(all) : all[i].id = last.node}) = 1

\* C12's case: a successful insert into a tree that has a node with two
\* children, the first of them with a child of its own.
AllChildrenWitness ==
    /\ last.op = "insert" /\ last.success
    /\ \E p \in DOMAIN nodes :
           /\ Len(nodes[p].children) >= 2
           /\ Len(nodes[nodes[p].children[1]].children) >= 1

\* C13: update(q, d) on a store with a root, q well-formed: when
\* find_by_query(q) returns a node X, the call returns (True, "Node updated
\* successfully."), X's data is exactly d, and every other node, X's
\* identifier and children, the set of nodes and the root are what they were;
\* when it returns no node, the call returns (False, "Node not found.") and
\* the tree is what it was.
UpdateReplacesOnePayload ==
    [][\A q \in StoreTexts, d \in Payloads :
          (root # NoNode /\ last'.op = "update" /\ ~parse_raises(q) /\ Update(q, d))
              => \E X \in {find_by_query(nodes, root, q)} :
                     IF X # NoNode
                     THEN /\ ~last'.raised /\ last'.success
                          /\ last'.message = "Node updated successfully."
                          /\ root' = root
                          /\ DOMAIN nodes' = DOMAIN nodes
                          /\ nodes'[X] = [nodes[X] EXCEPT !.data = d]
                          /\ \A u \in (DOMAIN nodes) \ {X} : nodes'[u] = nodes[u]
                     ELSE /\ ~last'.raised /\ ~last'.success
                          /\ last'.message = "Node not found."
                          /\ root' = root
                          /\ nodes' = nodes]_vars

\* C13's case: a successful update on a tree of two nodes that hold
\* different payloads.
UpdateWitness ==
    /\ last.op = "update" /\ last.success
    /\ \E u, v \in DOMAIN nodes : nodes[u].data # nodes[v].data

\* The set of the (key, value) pairs of an identifier.
pairs(d) == {d[i] : i \in 1..Len(d)}

\* C14: in every reachable tree and for every well-formed query q,
\* find_by_query(q) returns the first node, in the pre-order of the tree,
\* whose identifier holds every (key, value) pair of the parsed q, and
\* returns no node exactly when no node of the tree holds them all.
FindByQueryIsFirstSubsetMatch ==
    root # NoNode =>
        \A q \in Texts :
            ~parse_raises(q) =>
                LET order == db_get_all_children(nodes, root)
                    hits  == {i \in 1..Len(order) :
                                 pairs(parse_identifier(q)) \subseteq pairs(order[i].node_id)}
                    found == query(nodes, root, q)
                IN  IF hits = {} THEN found = NoNode
                    ELSE found = order[CHOOSE i \in hits : \A j \in hits : i <= j].id

\* C14's case: a tree in which one query is held by two nodes, neither of
\* them the root, and another query by no node.
FindByQueryWitness ==
    /\ root # NoNode
    /\ \E q \in Texts :
           /\ ~parse_raises(q)
           /\ query(nodes, root, q) \notin {NoNode, root}
           /\ Cardinality({u \in DOMAIN nodes :
                  pairs(parse_identifier(q)) \subseteq pairs(nodes[u].node_identifier)}) >= 2
    /\ \E q \in Texts : ~parse_raises(q) /\ query(nodes, root, q) = NoNode

\* C15: NodeIdentifier(a) == NodeIdentifier(b) is True exactly when the two
\* hold the same (key, value) pairs in the same order.
EqualityIsOrderSensitive ==
    last.op = "__eq__" => (last.result <=> last.a = last.b)

\* The segments of a text, and whether each is of the form k=v.
segments(text) == split(text, ",")
is_kv(segment) == Len(split(segment, "=")) = 2

\* C16: NodeIdentifier on a text of n >= 1 segments, each of the form k=v,
\* holds exactly n pairs, the i-th being the i-th segment's k and v, and
\* str() of it is the text.
ParseRenderRoundTrip ==
    (/\ last.op = "NodeIdentifier"
     /\ \A i \in 1..Len(segments(last.text)) : is_kv(segments(last.text)[i]))
        => /\ ~last.raised
           /\ Len(last.node_identifier) = Len(segments(last.text))
           /\ \A i \in 1..Len(segments(last.text)) :
                  last.node_identifier[i] = <<split(segments(last.text)[i], "=")[1],
                                              split(segments(last.text)[i], "=")[2]>>
           /\ last.str = last.text

\* The last (key, value) pair of an identifier.
last_pair(d) == d[Len(d)]

\* The tree T without the node x and its descendants, x's parent keeping its
\* other children in their order.
without_subtree(T, x) ==
    [u \in (DOMAIN T) \ subtree(T, x) |->
        [T[u] EXCEPT !.children = SelectSeq(@, LAMBDA c : c # x)]]

\* C17: in every reachable tree and for every text q, delete(q) returns
\* success exactly when q is well-formed, find_by_query(q) returns a node and
\* some node other than the root has a last pair equal to q's last pair; on
\* success the tree loses the first such node in pre-order, with its
\* descendants, and nothing else changes; without success the tree is what
\* it was.
DeleteRemovesFirstLastPairMatch ==
    root # NoNode =>
        \A q \in Texts :
            \E r \in {delete_node(nodes, root, q)} :
                IF parse_raises(q) THEN ~r.success /\ r.nodes = nodes
                ELSE \E order \in {db_get_all_children(nodes, root)} :
                     \E hits \in {{i \in 2..Len(order) :
                                      last_pair(order[i].node_id)
                                          = last_pair(parse_identifier(q))}} :
                         /\ r.success <=> (query(nodes, root, q) # NoNode /\ hits # {})
                         /\ r.success
                               => r.nodes = without_subtree(nodes,
                                      order[CHOOSE i \in hits : \A j \in hits : i <= j].id)
                         /\ ~r.success => r.nodes = nodes

\* C17's case: a successful delete that leaves a tree in which two nodes
\* have the same last pair.
DeleteFirstMatchWitness ==
    /\ last.op = "delete" /\ last.success
    /\ \E u, v \in (DOMAIN nodes) \ {root} :
           /\ u # v
           /\ last_pair(nodes[u].node_identifier) = last_pair(nodes[v].node_identifier)

\* No two nodes other than the root have the same last pair, and no
\* identifier holds a key twice.
DistinctTrailingPairs ==
    /\ \A u, v \in (DOMAIN nodes) \ {root} :
           u # v => last_pair(nodes[u].node_identifier) # last_pair(nodes[v].node_identifier)
    /\ \A u \in DOMAIN nodes :
           \A i, j \in 1..Len(nodes[u].node_identifier) :
               i # j => nodes[u].node_identifier[i][1] # nodes[u].node_identifier[j][1]

\* C18: in every reachable tree with DistinctTrailingPairs, delete called
\* with the full identifier text of a node X other than the root returns
\* success, the tree loses exactly X and X's descendants, and nothing else
\* changes; under a root of one pair (the scenario's o=root), a query on the
\* identifier of X or of a descendant of X then returns no node.
FullIdentifierDeleteRemovesTheSubtree ==
    (root # NoNode /\ DistinctTrailingPairs) =>
        \A x \in (DOMAIN nodes) \ {root} :
            \E r \in {delete_node(nodes, root, identifier_text(nodes, x))} :
                /\ ~r.raised /\ r.success
                /\ DOMAIN r.nodes = (DOMAIN nodes) \ subtree(nodes, x)
                /\ r.nodes = without_subtree(nodes, x)
                /\ Len(nodes[root].node_identifier) = 1
                      => \A g \in subtree(nodes, x) :
                             query(r.nodes, root, identifier_text(nodes, g)) = NoNode

\* C18's case: a successful delete on a tree with DistinctTrailingPairs that
\* leaves a node with a child.
FullIdentifierDeleteWitness ==
    /\ last.op = "delete" /\ last.success
    /\ DistinctTrailingPairs
    /\ \E u \in (DOMAIN nodes) \ {root} : Len(nodes[u].children) >= 1

\* The text of the ancestor prefix of t: all its pairs but the last.
prefix_text(t) ==
    render(SubSeq(parse_identifier(t), 1, Len(parse_identifier(t)) - 1))

\* C19: in every reachable tree, an insert(data, t) that returns success
\* adds exactly one node, the new one, at the end of the child list of the
\* node find_by_query returns for t's ancestor prefix; that list is otherwise
\* what it was, and so are the identity, identifier, data and children of
\* every other node; and every child list is in the order of insertion
\* (uuids are given in the order of construction).
InsertAppendsToTheLocatedParent ==
    root # NoNode =>
        /\ \A t \in Texts :
               \E r \in {insert_node(nodes, root, P1, t, next_uuid)} :
                   r.success =>
                       \E parent \in {query(nodes, root, prefix_text(t))} :
                           /\ r.node = next_uuid /\ r.node \notin DOMAIN nodes
                           /\ parent \in DOMAIN nodes
                           /\ DOMAIN r.nodes = (DOMAIN nodes) \cup {r.node}
                           /\ r.nodes[r.node] = [data |-> P1, children |-> <<>>,
                                                 node_identifier |-> parse_identifier(t)]
                           /\ r.nodes[parent]
                                  = [nodes[parent] EXCEPT !.children = Append(@, r.node)]
                           /\ \A u \in (DOMAIN nodes) \ {parent} : r.nodes[u] = nodes[u]
        /\ \A p \in DOMAIN nodes :
               \A i, j \in 1..Len(nodes[p].children) :
                   i < j => nodes[p].children[i] < nodes[p].children[j]

\* C19's case: a successful insert whose node is the last of at least two
\* children of a node that is not the root.
InsertAppendsWitness ==
    /\ last.op = "insert" /\ last.success
    /\ \E p \in (DOMAIN nodes) \ {root} :
           /\ Len(nodes[p].children) >= 2
           /\ nodes[p].children[Len(nodes[p].children)] = last.node

\* Whether the root, and no other node of the tree, holds every pair of the
\* well-formed query q.
matches_only_root(q) ==
    /\ ~parse_raises(q)
    /\ {u \in DOMAIN nodes : pairs(parse_identifier(q)) \subseteq pairs(nodes[u].node_identifier)}
           = {root}

\* C20: an insert, update or delete call on a store with a root leaves the
\* root the same node with the same identifier, and a delete whose query
\* matches only the root returns (False, "Node not found.") and changes
\* nothing.
RootIsNeverRemoved ==
    [][(root # NoNode /\ last'.op \in Mutating)
          => /\ root' = root
             /\ root \in DOMAIN nodes'
             /\ nodes'[root].node_identifier = nodes[root].node_identifier
             /\ last'.op = "delete"
                   => \A q \in Texts :
                          (matches_only_root(q) /\ Delete(q))
                              => /\ ~last'.raised /\ ~last'.success
                                 /\ last'.message = "Node not found."
                                 /\ nodes' = nodes]_vars

\* C20's first half alone: the root stays the same node with the same
\* identifier.
RootStays ==
    [][(root # NoNode /\ last'.op \in Mutating)
          => /\ root' = root
             /\ root \in DOMAIN nodes'
             /\ nodes'[root].node_identifier = nodes[root].node_identifier]_vars

\* C21: a load_from_file call that returns False on a store with a root
\* leaves the root, the tree, the persistence target db_path and the files
\* what they were before the call.
FailedLoadKeepsTheTarget ==
    [][(root # NoNode /\ last'.op = "load" /\ ~last'.raised /\ ~last'.success)
          => /\ root' = root
             /\ nodes' = nodes
             /\ db_path' = db_path
             /\ files' = files]_vars

\* ------------------------------------------------------------------ insert calls in threads

\* Two threads calling insert on one store.  insert_node reads the tree
\* (the parent lookup and the scan for an equal identifier) and then writes it
\* (add_child); nothing in the code keeps another thread from running in
\* between.  In this specification `last` holds, for each thread, its call:
\* not yet made ("idle"), past the reads ("checked"), or "returned".
Threads == {1, 2}

\* The texts the threads insert.
ThreadTexts ==
    {join(",", p) : p \in {<<O_R>>, <<O_R, M_A>>, <<O_R, M_B>>, <<O_R, M_A, C_X>>, <<BAD>>}}

InsertCall(pc, data, text, parent, raced, success, message, node) ==
    [pc |-> pc, data |-> data, text |-> text, parent |-> parent, raced |-> raced,
     success |-> success, message |-> message, node |-> node]

\* Whether the two texts parse to equal NodeIdentifiers.
same_identifier(a, b) ==
    /\ ~parse_raises(a) /\ ~parse_raises(b)
    /\ NodeIdentifier_eq(parse_identifier(a), parse_identifier(b))

\* The store as the service's start leaves it on a file system without
\* data.db: load_from_file has made the root TreeNode({}, "o=r") and saved it.
InitThreads ==
    /\ root = 1
    /\ nodes = [u \in {1} |-> TreeNode(EmptyData, O_R)]
    /\ db_path = "data.db"
    /\ files = save_tree([p \in FilePaths |-> NoFile], "data.db", root, nodes)
    /\ next_uuid = 2
    /\ last = [op |-> "threads",
               calls |-> [th \in Threads |->
                             InsertCall("idle", EmptyData, <<>>, NoNode, FALSE, FALSE, "", NoNode)],
               overlapped |-> FALSE]

\* The reads of insert_node in thread th: the tests on the identifier, the
\* parent lookup and the scan for an equal identifier.  A call that fails
\* one of them returns at once; one that passes them all has its parent_node
\* and is about to construct and append its node.  raced: the other thread
\* is past the same reads for an equal identifier; overlapped: some call has
\* started while another was between its reads and its write.
InsertCheck(th, new_node_data, new_node_identifier) ==
    /\ last.calls[th].pc # "checked"
    /\ next_uuid + Cardinality({o \in Threads : last.calls[o].pc = "checked"}) <= MaxUuid
    /\ \E r \in {insert_node(nodes, root, new_node_data, new_node_identifier, next_uuid)} :
       \E others \in {{o \in Threads \ {th} : last.calls[o].pc = "checked"}} :
       \E racing \in {{o \in others :
                          r.success /\ same_identifier(last.calls[o].text,
                                                       new_node_identifier)}} :
           last' = [op |-> "threads",
                    calls |-> [o \in Threads |->
                        IF o = th
                        THEN IF r.success
                             THEN InsertCall("checked", new_node_data, new_node_identifier,
                                             find_by_query(nodes, root,
                                                           prefix_text(new_node_identifier)),
                                             racing # {}, FALSE, "", NoNode)
                             ELSE InsertCall("returned", new_node_data, new_node_identifier,
                                             NoNode, FALSE, FALSE, r.message, NoNode)
                        ELSE IF o \in racing THEN [last.calls[o] EXCEPT !.raced = TRUE]
                        ELSE last.calls[o]],
                    overlapped |-> last.overlapped \/ others # {}]
    /\ UNCHANGED <<root, nodes, db_path, files, next_uuid>>

\* The write of insert_node scanning the tree once more before it appends.
InsertAppend_scanning_again(th) ==
    /\ last.calls[th].pc = "checked"
    /\ next_uuid <= MaxUuid
    /\ IF \E u \in DOMAIN nodes :
              NodeIdentifier_eq(nodes[u].node_identifier,
                                parse_identifier(last.calls[th].text))
       THEN /\ last' = [last EXCEPT !.calls[th] =
                           [@ EXCEPT !.pc = "returned",
                                     !.message = "A node with this identifier already exists."]]
            /\ UNCHANGED <<root, nodes, db_path, files, next_uuid>>
       ELSE /\ nodes' = add_child(nodes, last.calls[th].parent, next_uuid,
                                  TreeNode(last.calls[th].data, last.calls[th].text))
            /\ next_uuid' = next_uuid + 1
            /\ files' = save_cb(files, db_path, root, nodes')
            /\ last' = [last EXCEPT !.calls[th] =
                           [@ EXCEPT !.pc = "returned", !.success = TRUE,
                                     !.message = "Node inserted successfully.",
                                     !.node = next_uuid]]
            /\ UNCHANGED <<root, db_path>>

\* The write of insert_node in thread th, and the store's save after it: the
\* node is constructed and appended to the parent_node the reads found, and
\* the call returns success.
InsertAppend(th) ==
    /\ last.calls[th].pc = "checked"
    /\ next_uuid <= MaxUuid
    /\ nodes' = add_child(nodes, last.calls[th].parent, next_uuid,
                          TreeNode(last.calls[th].data, last.calls[th].text))
    /\ next_uuid' = next_uuid + 1
    /\ files' = save_cb(files, db_path, root, nodes')
    /\ last' = [last EXCEPT !.calls[th] =
                   [@ EXCEPT !.pc = "returned", !.success = TRUE,
                             !.message = "Node inserted successfully.",
                             !.node = next_uuid]]
    /\ UNCHANGED <<root, db_path>>

NextThreads ==
    \/ \E th \in Threads, t \in ThreadTexts : InsertCheck(th, P1, t)
    \/ \E th \in Threads : InsertAppend(th)

SpecThreads == InitThreads /\ [][NextThreads]_vars

\* C22: when two insert calls for equal identifiers have both made their
\* parent lookup and duplicate scan before either appended, and both have
\* returned, both returned success and the tree holds their two nodes, with
\* equal identifiers; and as long as no call has started while another was
\* between its reads and its write, no two nodes hold equal identifiers.
InterleavedInsertsDuplicate ==
    /\ \A th, ot \in Threads :
           (/\ th # ot
            /\ last.calls[th].pc = "returned" /\ last.calls[ot].pc = "returned"
            /\ last.calls[th].raced /\ last.calls[ot].raced)
               => /\ last.calls[th].success /\ last.calls[ot].success
                  /\ last.calls[th].node # last.calls[ot].node
                  /\ {last.calls[th].node, last.calls[ot].node} \subseteq DOMAIN nodes
                  /\ NodeIdentifier_eq(nodes[last.calls[th].node].node_identifier,
                                       nodes[last.calls[ot].node].node_identifier)
    /\ ~last.overlapped => UniqueIdentifiers

\* C22's case: both threads have returned from inserts that raced, and two
\* nodes of the tree hold equal identifiers.
InterleavedInsertsWitness ==
    /\ \A th \in Threads : last.calls[th].pc = "returned" /\ last.calls[th].raced
    /\ ~UniqueIdentifiers

====
